---- MODULE Spec2Model ----
(***************************************************************************)
(* Race-to-first-success coordination of cloudflare-ddns-C.                *)
(*                                                                         *)
(* Two reference programs are modelled:                                    *)
(*   - the IP getter, get_public_ip_multithreaded() and its worker()       *)
(*     (old/src/multithreaded_ip_getter/get_public_ip_multithreaded.c);    *)
(*   - the task simulator, main(), worker_thread() and                     *)
(*     terminate_remaining_threads()                                       *)
(*     (old/src/multithreaded_tasks_simulator/main.c).                     *)
(* One run executes one of the two programs, chosen in Init (program).     *)
(* Every access to memory shared between threads is one step.              *)
(***************************************************************************)
EXTENDS Integers, FiniteSets, Sequences, TLC

\* ------------------------------------------------------------------ bounds
\* Largest number of URLs handed to get_public_ip_multithreaded().
MaxUrls == 2

\* Largest number_of_threads argument given to the simulator.
MaxThreads == 2

\* ------------------------------------------------------- program constants
MAX_THREAD_GET_ATTEMPTS == 5

\* the simulator accepts 1..100 threads
MAX_SIM_THREADS == 100

NULL == 0

Urls == 1..MaxUrls

Threads == 1..MaxThreads

VARIABLES
  program,      \* which binary runs: "ip_getter" or "simulator"
  \* ---- get_public_ip_multithreaded(urls, n) ----
  urls,         \* the urls argument: "NULL" or "list"
  n,            \* the n argument
  gpc,          \* position of get_public_ip_multithreaded
  gi,           \* its loop index i (1-based)
  tid,          \* "none" | "allocated" | "freed": the calloc'ed tid array
  mtxState,     \* "none" | "live" | "destroyed": pthread_mutex_init/_destroy
  done,         \* atomic_bool done
  winner,       \* char *winner (NULL or a candidate)
  mtx,          \* owner of mtx (0 = unlocked)
  launch,       \* per index: "none" | "nomem" | "nocreate" | "launched"
  joins,        \* per index: number of pthread_join calls that returned
  ret,          \* value returned by get_public_ip_multithreaded
  \* ---- worker(arg) ----
  wpc,          \* position of each worker
  attempt,      \* its loop counter
  ip,           \* its local char *ip (NULL or a candidate)
  exitVia,      \* how its loop was left: "none" | "won" | "break" | "loop_end"
  \* ---- observation of the run (not program state) ----
  fetches,      \* per worker: get_url_body calls begun
  sleeps,       \* per worker: sleep_ms calls begun
  claim,        \* per worker: "none" | "won" | "lost", outcome of its locked test
  found,        \* per worker: attempt at which extract_first_ipv4 gave an IP (0 = never)
  lateFetch,    \* per worker: get_url_body calls begun while done was already true
  seenDone,     \* per worker: it has read done as true
  ipFrees,      \* per worker: free(ip) calls it has made
  argFrees,     \* per worker: free(arg) calls it has made
  \* ---- simulator: main() ----
  num_threads,      \* atoi(argv[1])
  spc,              \* position of main
  si,               \* loop index i (1-based)
  sj,               \* loop index j of the creation-failure path
  exit_code,        \* main's return value (-1 while running), of either program
  shown,            \* the values main printed, in order (<< >> before it prints)
  sjoins,           \* per thread: pthread_join calls that returned
  cancel_req,       \* per thread: a pthread_cancel request is pending or was acted on
  \* ---- simulator: shared_data_t / thread_data_t ----
  result_mutex,     \* owner of shared.result_mutex (0 = unlocked)
  result_written,
  winner_thread_id,
  final_result,
  should_stop,
  finished,         \* per thread: thread_data_t.finished
  \* ---- simulator: worker_thread() ----
  tpc,              \* position of each worker thread
  my_result,        \* its local my_result
  sclaim            \* observation: "none" | "won" | "lost", outcome of its locked test

gvars == <<urls, n, gpc, gi, tid, mtxState, done, winner, mtx, launch, joins, ret>>
wvars == <<wpc, attempt, ip, exitVia>>
hvars == <<fetches, sleeps, claim, found, lateFetch, seenDone>>
ovars == <<ipFrees, argFrees>>
ipvars == <<gvars, wvars, hvars, ovars>>
smvars == <<num_threads, spc, si, sj, exit_code, shown, sjoins, cancel_req>>
shvars == <<result_mutex, result_written, winner_thread_id, final_result, should_stop, finished>>
stvars == <<tpc, my_result, sclaim>>
simvars == <<smvars, shvars, stvars>>
vars  == <<program, ipvars, simvars>>

\* The pointer extract_first_ipv4 returns to worker w on attempt a: a fresh
\* allocation, different from every other one.
Cand(w, a) == (w - 1) * MAX_THREAD_GET_ATTEMPTS + a

GetterInit ==
  /\ urls \in {"NULL", "list"}
  /\ n \in 0..MaxUrls
  /\ gpc = "entry"
  /\ gi = 1
  /\ tid = "none"
  /\ mtxState = "none"
  /\ done = FALSE
  /\ winner = NULL
  /\ mtx = 0
  /\ launch = [i \in Urls |-> "none"]
  /\ joins = [i \in Urls |-> 0]
  /\ ret = NULL
  /\ wpc = [i \in Urls |-> "idle"]
  /\ attempt = [i \in Urls |-> 0]
  /\ ip = [i \in Urls |-> NULL]
  /\ exitVia = [i \in Urls |-> "none"]
  /\ fetches = [i \in Urls |-> 0]
  /\ sleeps = [i \in Urls |-> 0]
  /\ claim = [i \in Urls |-> "none"]
  /\ found = [i \in Urls |-> 0]
  /\ lateFetch = [i \in Urls |-> 0]
  /\ seenDone = [i \in Urls |-> FALSE]
  /\ ipFrees = [i \in Urls |-> 0]
  /\ argFrees = [i \in Urls |-> 0]

SimInit ==
  /\ num_threads \in 0..MaxThreads
  /\ spc = "entry"
  /\ si = 1
  /\ sj = 1
  /\ exit_code = -1
  /\ shown = << >>
  /\ sjoins = [t \in Threads |-> 0]
  /\ cancel_req = [t \in Threads |-> FALSE]
  /\ result_mutex = 0
  /\ result_written = 0
  /\ winner_thread_id = 0
  /\ final_result = 0
  /\ should_stop = 0
  /\ finished = [t \in Threads |-> 0]
  /\ tpc = [t \in Threads |-> "idle"]
  /\ my_result = [t \in Threads |-> 0]
  /\ sclaim = [t \in Threads |-> "none"]

\* The program that is not run stays as constructed, with its smallest input.
Init ==
  /\ program \in {"ip_getter", "simulator"}
  /\ GetterInit
  /\ SimInit
  /\ program = "ip_getter" => num_threads = 0
  /\ program = "simulator" => (urls = "NULL" /\ n = 0)

\* ===================== worker(), get_public_ip_multithreaded.c:29-83 ======

\* Variant of WorkerLoopTop: the loop bound is off by one (attempt < MAX).
WorkerLoopTopShort(w) ==
  /\ wpc[w] = "top"
  /\ IF attempt[w] >= MAX_THREAD_GET_ATTEMPTS
       THEN /\ wpc' = [wpc EXCEPT ![w] = "fail_exit"]
            /\ exitVia' = [exitVia EXCEPT ![w] = "loop_end"]
            /\ UNCHANGED seenDone
       ELSE IF done
         THEN /\ wpc' = [wpc EXCEPT ![w] = "fail_exit"]
              /\ exitVia' = [exitVia EXCEPT ![w] = "break"]
              /\ seenDone' = [seenDone EXCEPT ![w] = TRUE]
         ELSE /\ wpc' = [wpc EXCEPT ![w] = "call_fetch"]
              /\ UNCHANGED <<exitVia, seenDone>>
  /\ UNCHANGED <<program, simvars, gvars, attempt, ip, fetches, sleeps, claim, found, lateFetch, ovars>>

\* Variant of WorkerLoopTop: the done flag is not looked at before an attempt.
WorkerLoopTopNoDoneCheck(w) ==
  /\ wpc[w] = "top"
  /\ IF attempt[w] > MAX_THREAD_GET_ATTEMPTS
       THEN /\ wpc' = [wpc EXCEPT ![w] = "fail_exit"]
            /\ exitVia' = [exitVia EXCEPT ![w] = "loop_end"]
       ELSE /\ wpc' = [wpc EXCEPT ![w] = "call_fetch"]
            /\ UNCHANGED exitVia
  /\ UNCHANGED <<program, simvars, gvars, attempt, ip, hvars, ovars>>

\* Variant of WorkerLoopTop: the test of done is inverted.
WorkerLoopTopInverted(w) ==
  /\ wpc[w] = "top"
  /\ IF attempt[w] > MAX_THREAD_GET_ATTEMPTS
       THEN /\ wpc' = [wpc EXCEPT ![w] = "fail_exit"]
            /\ exitVia' = [exitVia EXCEPT ![w] = "loop_end"]
            /\ UNCHANGED seenDone
       ELSE IF ~done
         THEN /\ wpc' = [wpc EXCEPT ![w] = "fail_exit"]
              /\ exitVia' = [exitVia EXCEPT ![w] = "break"]
              /\ UNCHANGED seenDone
         ELSE /\ wpc' = [wpc EXCEPT ![w] = "call_fetch"]
              /\ seenDone' = [seenDone EXCEPT ![w] = TRUE]
              /\ UNCHANGED exitVia
  /\ UNCHANGED <<program, simvars, gvars, attempt, ip, fetches, sleeps, claim, found, lateFetch, ovars>>

\* Variant of WorkerLoopTop: the loop allows one attempt more.
WorkerLoopTopOneMore(w) ==
  /\ wpc[w] = "top"
  /\ IF attempt[w] > MAX_THREAD_GET_ATTEMPTS + 1
       THEN /\ wpc' = [wpc EXCEPT ![w] = "fail_exit"]
            /\ exitVia' = [exitVia EXCEPT ![w] = "loop_end"]
            /\ UNCHANGED seenDone
       ELSE IF done
         THEN /\ wpc' = [wpc EXCEPT ![w] = "fail_exit"]
              /\ exitVia' = [exitVia EXCEPT ![w] = "break"]
              /\ seenDone' = [seenDone EXCEPT ![w] = TRUE]
         ELSE /\ wpc' = [wpc EXCEPT ![w] = "call_fetch"]
              /\ UNCHANGED <<exitVia, seenDone>>
  /\ UNCHANGED <<program, simvars, gvars, attempt, ip, fetches, sleeps, claim, found, lateFetch, ovars>>

\* for (attempt = 1; attempt <= MAX; ++attempt) { if (atomic_load(done)) break;
WorkerLoopTop(w) ==
  /\ wpc[w] = "top"
  /\ IF attempt[w] > MAX_THREAD_GET_ATTEMPTS
       THEN /\ wpc' = [wpc EXCEPT ![w] = "fail_exit"]
            /\ exitVia' = [exitVia EXCEPT ![w] = "loop_end"]
            /\ UNCHANGED seenDone
       ELSE IF done
         THEN /\ wpc' = [wpc EXCEPT ![w] = "fail_exit"]
              /\ exitVia' = [exitVia EXCEPT ![w] = "break"]
              /\ seenDone' = [seenDone EXCEPT ![w] = TRUE]
         ELSE /\ wpc' = [wpc EXCEPT ![w] = "call_fetch"]
              /\ UNCHANGED <<exitVia, seenDone>>
  /\ UNCHANGED <<program, simvars, gvars, attempt, ip, fetches, sleeps, claim, found, lateFetch, ovars>>

\* char *raw = get_url_body(arg->url, HTTP_REQUEST_TIMEOUT_MS);   (the call begins)
WorkerFetchCall(w) ==
  /\ wpc[w] = "call_fetch"
  /\ wpc' = [wpc EXCEPT ![w] = "fetching"]
  /\ fetches' = [fetches EXCEPT ![w] = @ + 1]
  /\ lateFetch' = [lateFetch EXCEPT ![w] = IF done THEN @ + 1 ELSE @]
  /\ UNCHANGED <<program, simvars, gvars, attempt, ip, exitVia, sleeps, claim, found, seenDone, ovars>>

\* get_url_body returns: NULL (goto maybe_retry) or a body.
WorkerFetchReturn(w) ==
  /\ wpc[w] = "fetching"
  /\ \E raw \in {"NULL", "body"} :
       wpc' = [wpc EXCEPT ![w] = IF raw = "NULL" THEN "maybe_retry" ELSE "extract"]
  /\ UNCHANGED <<program, simvars, gvars, attempt, ip, exitVia, hvars, ovars>>

\* Variant of WorkerExtract: the claim is attempted also when no address was found.
WorkerExtractNoNullTest(w) ==
  /\ wpc[w] = "extract"
  /\ \E ok \in BOOLEAN :
       IF ok
         THEN /\ ip' = [ip EXCEPT ![w] = Cand(w, attempt[w])]
              /\ found' = [found EXCEPT ![w] = attempt[w]]
              /\ wpc' = [wpc EXCEPT ![w] = "lock"]
         ELSE /\ wpc' = [wpc EXCEPT ![w] = "lock"]
              /\ UNCHANGED <<ip, found>>
  /\ UNCHANGED <<program, simvars, gvars, attempt, exitVia, fetches, sleeps, claim, lateFetch, seenDone, ovars>>

\* char *ip = extract_first_ipv4(raw); free(raw); if (ip) ... else ...
WorkerExtract(w) ==
  /\ wpc[w] = "extract"
  /\ \E ok \in BOOLEAN :
       IF ok
         THEN /\ ip' = [ip EXCEPT ![w] = Cand(w, attempt[w])]
              /\ found' = [found EXCEPT ![w] = attempt[w]]
              /\ wpc' = [wpc EXCEPT ![w] = "lock"]
         ELSE /\ wpc' = [wpc EXCEPT ![w] = "maybe_retry"]
              /\ UNCHANGED <<ip, found>>
  /\ UNCHANGED <<program, simvars, gvars, attempt, exitVia, fetches, sleeps, claim, lateFetch, seenDone, ovars>>

\* Variant of WorkerLock: the worker goes on without waiting for the mutex.
WorkerLockNoWait(w) ==
  /\ wpc[w] = "lock"
  /\ mtx' = w
  /\ wpc' = [wpc EXCEPT ![w] = "test_winner"]
  /\ UNCHANGED <<program, simvars, urls, n, gpc, gi, tid, mtxState, done, winner, launch, joins, ret,
                 attempt, ip, exitVia, hvars, ovars>>

\* pthread_mutex_lock(arg->mtx);
WorkerLock(w) ==
  /\ wpc[w] = "lock"
  /\ mtx = 0
  /\ mtx' = w
  /\ wpc' = [wpc EXCEPT ![w] = "test_winner"]
  /\ UNCHANGED <<program, simvars, urls, n, gpc, gi, tid, mtxState, done, winner, launch, joins, ret,
                 attempt, ip, exitVia, hvars, ovars>>

\* Variant of WorkerTestWinner: the winner slot is written without the test.
WorkerTestWinnerNoTest(w) ==
  /\ wpc[w] = "test_winner"
  /\ winner' = ip[w]
  /\ claim' = [claim EXCEPT ![w] = "won"]
  /\ wpc' = [wpc EXCEPT ![w] = "store_done"]
  /\ UNCHANGED <<program, simvars, urls, n, gpc, gi, tid, mtxState, done, mtx, launch, joins, ret,
                 attempt, ip, exitVia, fetches, sleeps, found, lateFetch, seenDone, ovars>>

\* Variant of WorkerTestWinner: the test is inverted (if (*arg->winner)).
WorkerTestWinnerInverted(w) ==
  /\ wpc[w] = "test_winner"
  /\ IF winner # NULL
       THEN /\ winner' = ip[w]
            /\ claim' = [claim EXCEPT ![w] = "won"]
            /\ wpc' = [wpc EXCEPT ![w] = "store_done"]
       ELSE /\ claim' = [claim EXCEPT ![w] = "lost"]
            /\ wpc' = [wpc EXCEPT ![w] = "lost_unlock"]
            /\ UNCHANGED winner
  /\ UNCHANGED <<program, simvars, urls, n, gpc, gi, tid, mtxState, done, mtx, launch, joins, ret,
                 attempt, ip, exitVia, fetches, sleeps, found, lateFetch, seenDone, ovars>>

\* if (!*arg->winner) { *arg->winner = ip; ... } else { ... }
WorkerTestWinner(w) ==
  /\ wpc[w] = "test_winner"
  /\ IF winner = NULL
       THEN /\ winner' = ip[w]
            /\ claim' = [claim EXCEPT ![w] = "won"]
            /\ wpc' = [wpc EXCEPT ![w] = "store_done"]
       ELSE /\ claim' = [claim EXCEPT ![w] = "lost"]
            /\ wpc' = [wpc EXCEPT ![w] = "lost_unlock"]
            /\ UNCHANGED winner
  /\ UNCHANGED <<program, simvars, urls, n, gpc, gi, tid, mtxState, done, mtx, launch, joins, ret,
                 attempt, ip, exitVia, fetches, sleeps, found, lateFetch, seenDone, ovars>>

\* Variant of WorkerStoreDone: the store of done is left out.
WorkerStoreDoneSkipped(w) ==
  /\ wpc[w] = "store_done"
  /\ wpc' = [wpc EXCEPT ![w] = "won_unlock"]
  /\ UNCHANGED <<program, simvars, urls, n, gpc, gi, tid, mtxState, done, winner, mtx, launch, joins, ret,
                 attempt, ip, exitVia, hvars, ovars>>

\* atomic_store(arg->done, true);
WorkerStoreDone(w) ==
  /\ wpc[w] = "store_done"
  /\ done' = TRUE
  /\ wpc' = [wpc EXCEPT ![w] = "won_unlock"]
  /\ UNCHANGED <<program, simvars, urls, n, gpc, gi, tid, mtxState, winner, mtx, launch, joins, ret,
                 attempt, ip, exitVia, hvars, ovars>>

\* pthread_mutex_unlock(arg->mtx); free(arg); return NULL;     (the winner)
WorkerWonUnlock(w) ==
  /\ wpc[w] = "won_unlock"
  /\ mtx' = 0
  /\ argFrees' = [argFrees EXCEPT ![w] = @ + 1]
  /\ wpc' = [wpc EXCEPT ![w] = "terminated"]
  /\ exitVia' = [exitVia EXCEPT ![w] = "won"]
  /\ UNCHANGED <<program, simvars, urls, n, gpc, gi, tid, mtxState, done, winner, launch, joins, ret,
                 attempt, ip, hvars, ipFrees>>

\* Variant of WorkerLostUnlock: the loser's candidate is not freed.
WorkerLostUnlockNoFree(w) ==
  /\ wpc[w] = "lost_unlock"
  /\ mtx' = 0
  /\ ip' = [ip EXCEPT ![w] = NULL]
  /\ wpc' = [wpc EXCEPT ![w] = "maybe_retry"]
  /\ UNCHANGED <<program, simvars, urls, n, gpc, gi, tid, mtxState, done, winner, launch, joins, ret,
                 attempt, exitVia, hvars, ovars>>

\* pthread_mutex_unlock(arg->mtx); free(ip);                   (a loser)
WorkerLostUnlock(w) ==
  /\ wpc[w] = "lost_unlock"
  /\ mtx' = 0
  /\ ipFrees' = [ipFrees EXCEPT ![w] = @ + 1]
  /\ ip' = [ip EXCEPT ![w] = NULL]
  /\ wpc' = [wpc EXCEPT ![w] = "maybe_retry"]
  /\ UNCHANGED <<program, simvars, urls, n, gpc, gi, tid, mtxState, done, winner, launch, joins, ret,
                 attempt, exitVia, hvars, argFrees>>

\* Variant of WorkerMaybeRetry: the test of done is inverted, so a worker
\* never waits while the race is open.
WorkerMaybeRetryInverted(w) ==
  /\ wpc[w] = "maybe_retry"
  /\ IF attempt[w] < MAX_THREAD_GET_ATTEMPTS /\ done
       THEN /\ wpc' = [wpc EXCEPT ![w] = "sleeping"]
            /\ sleeps' = [sleeps EXCEPT ![w] = @ + 1]
            /\ UNCHANGED <<attempt, seenDone>>
       ELSE /\ wpc' = [wpc EXCEPT ![w] = "top"]
            /\ attempt' = [attempt EXCEPT ![w] = @ + 1]
            /\ UNCHANGED <<sleeps, seenDone>>
  /\ UNCHANGED <<program, simvars, gvars, ip, exitVia, fetches, claim, found, lateFetch, ovars>>

\* Variant of WorkerMaybeRetry: the delay is taken after the last attempt too.
WorkerMaybeRetryNoLastCheck(w) ==
  /\ wpc[w] = "maybe_retry"
  /\ IF ~done
       THEN /\ wpc' = [wpc EXCEPT ![w] = "sleeping"]
            /\ sleeps' = [sleeps EXCEPT ![w] = @ + 1]
            /\ UNCHANGED <<attempt, seenDone>>
       ELSE /\ wpc' = [wpc EXCEPT ![w] = "top"]
            /\ attempt' = [attempt EXCEPT ![w] = @ + 1]
            /\ seenDone' = [seenDone EXCEPT ![w] = TRUE]
            /\ UNCHANGED sleeps
  /\ UNCHANGED <<program, simvars, gvars, ip, exitVia, fetches, claim, found, lateFetch, ovars>>

\* maybe_retry: if (attempt < MAX && !atomic_load(done)) sleep_ms(...);  } ++attempt
WorkerMaybeRetry(w) ==
  /\ wpc[w] = "maybe_retry"
  /\ IF attempt[w] < MAX_THREAD_GET_ATTEMPTS /\ ~done
       THEN /\ wpc' = [wpc EXCEPT ![w] = "sleeping"]
            /\ sleeps' = [sleeps EXCEPT ![w] = @ + 1]
            /\ UNCHANGED <<attempt, seenDone>>
       ELSE /\ wpc' = [wpc EXCEPT ![w] = "top"]
            /\ attempt' = [attempt EXCEPT ![w] = @ + 1]
            /\ seenDone' = [seenDone EXCEPT ![w] =
                              @ \/ (attempt[w] < MAX_THREAD_GET_ATTEMPTS /\ done)]
            /\ UNCHANGED sleeps
  /\ UNCHANGED <<program, simvars, gvars, ip, exitVia, fetches, claim, found, lateFetch, ovars>>

\* sleep_ms returns; ++attempt
WorkerWake(w) ==
  /\ wpc[w] = "sleeping"
  /\ wpc' = [wpc EXCEPT ![w] = "top"]
  /\ attempt' = [attempt EXCEPT ![w] = @ + 1]
  /\ UNCHANGED <<program, simvars, gvars, ip, exitVia, hvars, ovars>>

\* printf("[FAIL] ..."); free(arg); return NULL;
WorkerFailExit(w) ==
  /\ wpc[w] = "fail_exit"
  /\ argFrees' = [argFrees EXCEPT ![w] = @ + 1]
  /\ wpc' = [wpc EXCEPT ![w] = "terminated"]
  /\ UNCHANGED <<program, simvars, gvars, attempt, ip, exitVia, hvars, ipFrees>>

WorkerStep(w) ==
  \/ WorkerLoopTop(w)
  \/ WorkerFetchCall(w)
  \/ WorkerFetchReturn(w)
  \/ WorkerExtract(w)
  \/ WorkerLock(w)
  \/ WorkerTestWinner(w)
  \/ WorkerStoreDone(w)
  \/ WorkerWonUnlock(w)
  \/ WorkerLostUnlock(w)
  \/ WorkerMaybeRetry(w)
  \/ WorkerWake(w)
  \/ WorkerFailExit(w)

\* ============ get_public_ip_multithreaded(), :86-116 ======================

\* Variant of GetterEntry: only !urls is tested, n == 0 goes on to allocate.
GetterEntryNoEmptyCheck ==
  /\ program = "ip_getter"
  /\ gpc = "entry"
  /\ IF urls = "NULL"
       THEN /\ gpc' = "returned"
            /\ ret' = NULL
            /\ UNCHANGED <<tid, mtxState, done, winner, mtx>>
       ELSE /\ tid' = "allocated"
            /\ done' = FALSE
            /\ mtxState' = "live"
            /\ mtx' = 0
            /\ winner' = NULL
            /\ gpc' = "create"
            /\ UNCHANGED ret
  /\ gi' = 1
  /\ UNCHANGED <<program, simvars, urls, n, launch, joins, wvars, hvars, ovars>>

\* if (!urls || n == 0) return NULL; tid = calloc(...); if (!tid) return NULL;
\* done = false; pthread_mutex_init(&mtx); winner = NULL;
GetterEntry ==
  /\ program = "ip_getter"
  /\ gpc = "entry"
  /\ IF urls = "NULL" \/ n = 0
       THEN /\ gpc' = "returned"
            /\ ret' = NULL
            /\ UNCHANGED <<tid, mtxState, done, winner, mtx>>
       ELSE \E callocOk \in BOOLEAN :
              IF callocOk
                THEN /\ tid' = "allocated"
                     /\ done' = FALSE
                     /\ mtxState' = "live"
                     /\ mtx' = 0
                     /\ winner' = NULL
                     /\ gpc' = "create"
                     /\ UNCHANGED ret
                ELSE /\ gpc' = "returned"
                     /\ ret' = NULL
                     /\ UNCHANGED <<tid, mtxState, done, winner, mtx>>
  /\ gi' = 1
  /\ UNCHANGED <<program, simvars, urls, n, launch, joins, wvars, hvars, ovars>>

\* for (i..n) { w = malloc; if (!w) continue; *w = ...; pthread_create(&tid[i], ...); }
\* The result of pthread_create is not looked at.
GetterCreate ==
  /\ gpc = "create"
  /\ IF gi > n
       THEN /\ gpc' = "join"
            /\ gi' = 1
            /\ UNCHANGED <<launch, wpc, attempt>>
       ELSE /\ \E how \in {"nomem", "nocreate", "launched"} :
                 /\ launch' = [launch EXCEPT ![gi] = how]
                 /\ IF how = "launched"
                      THEN /\ wpc' = [wpc EXCEPT ![gi] = "top"]
                           /\ attempt' = [attempt EXCEPT ![gi] = 1]
                      ELSE UNCHANGED <<wpc, attempt>>
            /\ gi' = gi + 1
            /\ UNCHANGED gpc
  /\ UNCHANGED <<program, simvars, urls, n, tid, mtxState, done, winner, mtx, joins, ret,
                 ip, exitVia, hvars, ovars>>

\* Variant of GetterJoin: the join does not wait for the thread to end.
GetterJoinNoWait ==
  /\ gpc = "join"
  /\ IF gi > n
       THEN /\ gpc' = "epilogue"
            /\ UNCHANGED <<gi, joins>>
       ELSE /\ launch[gi] = "launched"
            /\ joins' = [joins EXCEPT ![gi] = @ + 1]
            /\ gi' = gi + 1
            /\ UNCHANGED gpc
  /\ UNCHANGED <<program, simvars, urls, n, tid, mtxState, done, winner, mtx, launch, ret,
                 wvars, hvars, ovars>>

\* for (i..n) pthread_join(tid[i], NULL);   on a thread that was created
GetterJoin ==
  /\ gpc = "join"
  /\ IF gi > n
       THEN /\ gpc' = "epilogue"
            /\ UNCHANGED <<gi, joins>>
       ELSE /\ launch[gi] = "launched"
            /\ wpc[gi] = "terminated"
            /\ joins' = [joins EXCEPT ![gi] = @ + 1]
            /\ gi' = gi + 1
            /\ UNCHANGED gpc
  /\ UNCHANGED <<program, simvars, urls, n, tid, mtxState, done, winner, mtx, launch, ret,
                 wvars, hvars, ovars>>

\* pthread_join(tid[i], NULL) where tid[i] was never set by a successful
\* pthread_create (still the calloc'ed zero, or what a failed pthread_create
\* left): undefined behaviour. The call either fails at once (ESRCH) or the
\* process dies dereferencing the bogus thread handle.
GetterJoinInvalid ==
  /\ gpc = "join"
  /\ gi <= n
  /\ launch[gi] # "launched"
  /\ \E crash \in BOOLEAN :
       IF crash
         THEN /\ gpc' = "crashed"
              /\ UNCHANGED gi
         ELSE /\ gi' = gi + 1
              /\ UNCHANGED gpc
  /\ UNCHANGED <<program, simvars, urls, n, tid, mtxState, done, winner, mtx, launch, joins, ret,
                 wvars, hvars, ovars>>

\* pthread_mutex_destroy(&mtx); free(tid); return winner;
GetterReturn ==
  /\ gpc = "epilogue"
  /\ mtxState' = "destroyed"
  /\ tid' = "freed"
  /\ ret' = winner
  /\ gpc' = "returned"
  /\ UNCHANGED <<program, simvars, urls, n, gi, done, winner, mtx, launch, joins, wvars, hvars, ovars>>

\* Variant of GetterMainExit: main returns EXIT_SUCCESS whatever ip is.
GetterMainExitAlwaysSuccess ==
  /\ gpc = "returned"
  /\ exit_code = -1
  /\ shown' = IF ret # NULL THEN <<ret>> ELSE shown
  /\ exit_code' = 0
  /\ UNCHANGED <<program, ipvars, num_threads, spc, si, sj, sjoins, cancel_req, shvars, stvars>>

\* main of the IP getter programs, after the call:
\*   if (ip) { printf(ip); free(ip); } else fprintf(stderr, ...);
\*   return ip ? EXIT_SUCCESS : EXIT_FAILURE;
\* The last test compares the pointer value main still holds after free(ip);
\* it does not dereference it. Inputs that main rejects before the call
\* (no URL parsed) also end in EXIT_FAILURE, like the NULL the function
\* returns for them.
GetterMainExit ==
  /\ gpc = "returned"
  /\ exit_code = -1
  /\ shown' = IF ret # NULL THEN <<ret>> ELSE shown
  /\ exit_code' = IF ret # NULL THEN 0 ELSE 1
  /\ UNCHANGED <<program, ipvars, num_threads, spc, si, sj, sjoins, cancel_req, shvars, stvars>>

GetterStep ==
  \/ GetterEntry
  \/ GetterCreate
  \/ GetterJoin
  \/ GetterJoinInvalid
  \/ GetterReturn
  \/ GetterMainExit


\* ============ simulator: worker_thread(), main.c:139-179 ===================

\* What simulate_heavy_computation returns to thread t: a value of its own.
ComputedResult(t) == MAX_SIM_THREADS + t

\* The printf calls of worker_thread: the only cancellation points it passes
\* (pthread_mutex_lock and clock_gettime are none).
AtPrintf(t) == tpc[t] \in {"start", "print_won", "print_lost", "print_stopped"}

Terminal(t) == tpc[t] \in {"terminated", "cancelled"}

\* duration = get_random_number(1, 20); printf("Thread %d: Starting work ...");
SimStart(t) ==
  /\ tpc[t] = "start"
  /\ tpc' = [tpc EXCEPT ![t] = "compute"]
  /\ UNCHANGED <<program, ipvars, smvars, shvars, my_result, sclaim>>

\* simulate_heavy_computation: the while loop ends because the duration elapsed
SimComputeFinish(t) ==
  /\ tpc[t] = "compute"
  /\ tpc' = [tpc EXCEPT ![t] = "check_stop"]
  /\ my_result' = [my_result EXCEPT ![t] = ComputedResult(t)]
  /\ UNCHANGED <<program, ipvars, smvars, shvars, sclaim>>

\* simulate_heavy_computation: if (__atomic_load_n(&shared->should_stop)) break;
SimComputeBreak(t) ==
  /\ tpc[t] = "compute"
  /\ should_stop = 1
  /\ tpc' = [tpc EXCEPT ![t] = "check_stop"]
  /\ my_result' = [my_result EXCEPT ![t] = ComputedResult(t)]
  /\ UNCHANGED <<program, ipvars, smvars, shvars, sclaim>>

\* if (!__atomic_load_n(&shared->should_stop, ...)) { lock ... } else { printf }
SimCheckStop(t) ==
  /\ tpc[t] = "check_stop"
  /\ tpc' = [tpc EXCEPT ![t] = IF should_stop = 0 THEN "lock" ELSE "print_stopped"]
  /\ UNCHANGED <<program, ipvars, smvars, shvars, my_result, sclaim>>

\* pthread_mutex_lock(&shared->result_mutex);
SimLock(t) ==
  /\ tpc[t] = "lock"
  /\ result_mutex = 0
  /\ result_mutex' = t
  /\ tpc' = [tpc EXCEPT ![t] = "test_written"]
  /\ UNCHANGED <<program, ipvars, smvars, result_written, winner_thread_id, final_result,
                 should_stop, finished, my_result, sclaim>>

\* Variant of SimTestWritten: the test of result_written is inverted.
SimTestWrittenInverted(t) ==
  /\ tpc[t] = "test_written"
  /\ IF result_written # 0 /\ should_stop = 0
       THEN /\ final_result' = my_result[t]
            /\ sclaim' = [sclaim EXCEPT ![t] = "won"]
            /\ tpc' = [tpc EXCEPT ![t] = "write_id"]
       ELSE /\ sclaim' = [sclaim EXCEPT ![t] = "lost"]
            /\ tpc' = [tpc EXCEPT ![t] = "print_lost"]
            /\ UNCHANGED final_result
  /\ UNCHANGED <<program, ipvars, smvars, result_mutex, result_written, winner_thread_id,
                 should_stop, finished, my_result>>

\* if (!shared->result_written && !shared->should_stop) { final_result = my_result;
SimTestWritten(t) ==
  /\ tpc[t] = "test_written"
  /\ IF result_written = 0 /\ should_stop = 0
       THEN /\ final_result' = my_result[t]
            /\ sclaim' = [sclaim EXCEPT ![t] = "won"]
            /\ tpc' = [tpc EXCEPT ![t] = "write_id"]
       ELSE /\ sclaim' = [sclaim EXCEPT ![t] = "lost"]
            /\ tpc' = [tpc EXCEPT ![t] = "print_lost"]
            /\ UNCHANGED final_result
  /\ UNCHANGED <<program, ipvars, smvars, result_mutex, result_written, winner_thread_id,
                 should_stop, finished, my_result>>

\* shared->winner_thread_id = data->thread_id;
SimWriteId(t) ==
  /\ tpc[t] = "write_id"
  /\ winner_thread_id' = t
  /\ tpc' = [tpc EXCEPT ![t] = "write_written"]
  /\ UNCHANGED <<program, ipvars, smvars, result_mutex, result_written, final_result,
                 should_stop, finished, my_result, sclaim>>

\* shared->result_written = 1;
SimWriteWritten(t) ==
  /\ tpc[t] = "write_written"
  /\ result_written' = 1
  /\ tpc' = [tpc EXCEPT ![t] = "print_won"]
  /\ UNCHANGED <<program, ipvars, smvars, result_mutex, winner_thread_id, final_result,
                 should_stop, finished, my_result, sclaim>>

\* printf("Thread %d: Finished first! Writing result\n");   (mutex held)
SimPrintWon(t) ==
  /\ tpc[t] = "print_won"
  /\ tpc' = [tpc EXCEPT ![t] = "store_stop"]
  /\ UNCHANGED <<program, ipvars, smvars, shvars, my_result, sclaim>>

\* __atomic_store_n(&shared->should_stop, 1, __ATOMIC_RELEASE);
SimStoreStop(t) ==
  /\ tpc[t] = "store_stop"
  /\ should_stop' = 1
  /\ tpc' = [tpc EXCEPT ![t] = "unlock"]
  /\ UNCHANGED <<program, ipvars, smvars, result_mutex, result_written, winner_thread_id,
                 final_result, finished, my_result, sclaim>>

\* printf("Thread %d: Finished but result already written\n");   (mutex held)
SimPrintLost(t) ==
  /\ tpc[t] = "print_lost"
  /\ tpc' = [tpc EXCEPT ![t] = "unlock"]
  /\ UNCHANGED <<program, ipvars, smvars, shvars, my_result, sclaim>>

\* pthread_mutex_unlock(&shared->result_mutex);
SimUnlock(t) ==
  /\ tpc[t] = "unlock"
  /\ result_mutex' = 0
  /\ tpc' = [tpc EXCEPT ![t] = "set_finished"]
  /\ UNCHANGED <<program, ipvars, smvars, result_written, winner_thread_id, final_result,
                 should_stop, finished, my_result, sclaim>>

\* printf("Thread %d: Finished but was told to stop\n");
SimPrintStopped(t) ==
  /\ tpc[t] = "print_stopped"
  /\ tpc' = [tpc EXCEPT ![t] = "set_finished"]
  /\ UNCHANGED <<program, ipvars, smvars, shvars, my_result, sclaim>>

\* __atomic_store_n(&data->finished, 1, __ATOMIC_RELEASE); return NULL;
SimSetFinished(t) ==
  /\ tpc[t] = "set_finished"
  /\ finished' = [finished EXCEPT ![t] = 1]
  /\ tpc' = [tpc EXCEPT ![t] = "terminated"]
  /\ UNCHANGED <<program, ipvars, smvars, result_mutex, result_written, winner_thread_id,
                 final_result, should_stop, my_result, sclaim>>

\* A pending pthread_cancel (deferred cancellation, the default) is acted on
\* when the thread passes a cancellation point: the thread ends there, no
\* cleanup handler is installed, a mutex it holds stays locked.
SimCancelled(t) ==
  /\ cancel_req[t]
  /\ AtPrintf(t)
  /\ tpc' = [tpc EXCEPT ![t] = "cancelled"]
  /\ UNCHANGED <<program, ipvars, smvars, shvars, my_result, sclaim>>

SimWorkerStep(t) ==
  \/ SimStart(t)
  \/ SimComputeFinish(t)
  \/ SimComputeBreak(t)
  \/ SimCheckStop(t)
  \/ SimLock(t)
  \/ SimTestWritten(t)
  \/ SimWriteId(t)
  \/ SimWriteWritten(t)
  \/ SimPrintWon(t)
  \/ SimStoreStop(t)
  \/ SimPrintLost(t)
  \/ SimUnlock(t)
  \/ SimPrintStopped(t)
  \/ SimSetFinished(t)
  \/ SimCancelled(t)

\* ============ simulator: main(), main.c:203-318 ============================

\* argument checks, init_random_generator, mutex init, calloc: any failure is return 1
SimEntry ==
  /\ program = "simulator"
  /\ spc = "entry"
  /\ \E initOk \in BOOLEAN :
       IF num_threads <= 0 \/ num_threads > MAX_SIM_THREADS \/ ~initOk
         THEN /\ spc' = "exited"
              /\ exit_code' = 1
         ELSE /\ spc' = "create"
              /\ UNCHANGED exit_code
  /\ si' = 1
  /\ UNCHANGED <<program, ipvars, num_threads, sj, shown, sjoins, cancel_req, shvars, stvars>>

\* for (i..num_threads) { threads[i].finished = 0; ret = pthread_create(...); if (ret != 0) ...
SimCreate ==
  /\ spc = "create"
  /\ IF si > num_threads
       THEN /\ spc' = "poll"
            /\ UNCHANGED <<si, tpc>>
       ELSE \E ok \in BOOLEAN :
              IF ok
                THEN /\ tpc' = [tpc EXCEPT ![si] = "start"]
                     /\ si' = si + 1
                     /\ UNCHANGED spc
                ELSE /\ spc' = "abort_stop"
                     /\ UNCHANGED <<si, tpc>>
  /\ UNCHANGED <<program, ipvars, num_threads, sj, exit_code, shown, sjoins, cancel_req,
                 shvars, my_result, sclaim>>

\* shared.should_stop = 1;      (creation of thread i failed; no lock is taken)
SimAbortStop ==
  /\ spc = "abort_stop"
  /\ should_stop' = 1
  /\ sj' = 1
  /\ spc' = "abort_cancel"
  /\ UNCHANGED <<program, ipvars, num_threads, si, exit_code, shown, sjoins, cancel_req,
                 result_mutex, result_written, winner_thread_id, final_result, finished, stvars>>

\* for (j < i) { pthread_cancel(threads[j].handle); ...   then cleanup; return 1;
SimAbortCancel ==
  /\ spc = "abort_cancel"
  /\ IF sj < si
       THEN /\ cancel_req' = [cancel_req EXCEPT ![sj] = TRUE]
            /\ spc' = "abort_join"
            /\ UNCHANGED exit_code
       ELSE /\ spc' = "exited"
            /\ exit_code' = 1
            /\ UNCHANGED cancel_req
  /\ UNCHANGED <<program, ipvars, num_threads, si, sj, shown, sjoins, shvars, stvars>>

\* ... pthread_join(threads[j].handle, NULL); }
SimAbortJoin ==
  /\ spc = "abort_join"
  /\ Terminal(sj)
  /\ sjoins' = [sjoins EXCEPT ![sj] = @ + 1]
  /\ sj' = sj + 1
  /\ spc' = "abort_cancel"
  /\ UNCHANGED <<program, ipvars, num_threads, si, exit_code, shown, cancel_req, shvars, stvars>>

\* while (!shared.result_written) nanosleep(5 ms);    (leaves the loop)
SimPoll ==
  /\ spc = "poll"
  /\ result_written # 0
  /\ spc' = "report"
  /\ UNCHANGED <<program, ipvars, num_threads, si, sj, exit_code, shown, sjoins, cancel_req,
                 shvars, stvars>>

\* What main can get from an unsynchronised read of a field of shared_data_t
\* that the winner writes under result_mutex: main takes no lock and
\* result_written is a plain volatile int, so nothing orders the winner's
\* stores before main's loads (a data race). Until the winner has reached its
\* printf call the stores of lines 158-160 need not have become visible in
\* program order, and main can still see the field's initial value 0.
RacyRead(current) ==
  IF \E t \in Threads : tpc[t] = "print_won" THEN {current, 0} ELSE {current}

\* printf(winner_thread_id); printf(final_result);  then terminate_remaining_threads
SimReport ==
  /\ spc = "report"
  /\ \E id \in RacyRead(winner_thread_id), val \in RacyRead(final_result) :
       shown' = <<id, val>>
  /\ spc' = "terminate"
  /\ si' = 1
  /\ UNCHANGED <<program, ipvars, num_threads, sj, exit_code, sjoins, cancel_req, shvars, stvars>>

\* terminate_remaining_threads: for (i..num_threads) { if (!threads[i].finished)
\* The flag is read here; the pthread_cancel it guards is a later step.
SimTerminate ==
  /\ spc = "terminate"
  /\ IF si > num_threads
       THEN spc' = "cleanup"
       ELSE IF finished[si] = 0
         THEN spc' = "terminate_cancel"
         ELSE spc' = "terminate_join"
  /\ UNCHANGED <<program, ipvars, num_threads, si, sj, exit_code, shown, sjoins, cancel_req,
                 shvars, stvars>>

\* terminate_remaining_threads: pthread_cancel(threads[i].handle);
SimTerminateCancel ==
  /\ spc = "terminate_cancel"
  /\ cancel_req' = [cancel_req EXCEPT ![si] = TRUE]
  /\ spc' = "terminate_join"
  /\ UNCHANGED <<program, ipvars, num_threads, si, sj, exit_code, shown, sjoins, shvars, stvars>>

\* terminate_remaining_threads: pthread_join(threads[i].handle, &retval);
SimTerminateJoin ==
  /\ spc = "terminate_join"
  /\ Terminal(si)
  /\ sjoins' = [sjoins EXCEPT ![si] = @ + 1]
  /\ si' = si + 1
  /\ spc' = "terminate"
  /\ UNCHANGED <<program, ipvars, num_threads, sj, exit_code, shown, cancel_req, shvars, stvars>>

\* free(threads); pthread_mutex_destroy; cleanup_random_generator(); return 0;
SimCleanup ==
  /\ spc = "cleanup"
  /\ spc' = "exited"
  /\ exit_code' = 0
  /\ UNCHANGED <<program, ipvars, num_threads, si, sj, shown, sjoins, cancel_req, shvars, stvars>>

SimMainStep ==
  \/ SimEntry
  \/ SimCreate
  \/ SimAbortStop
  \/ SimAbortCancel
  \/ SimAbortJoin
  \/ SimPoll
  \/ SimReport
  \/ SimTerminate
  \/ SimTerminateCancel
  \/ SimTerminateJoin
  \/ SimCleanup

\* main returning ends the process and every thread in it.
SimAlive == spc # "exited"

\* A crash of the process ends every thread.
Alive == gpc # "crashed"

Next ==
  \/ GetterStep
  \/ \E w \in Urls : Alive /\ WorkerStep(w)
  \/ SimMainStep
  \/ \E t \in Threads : SimAlive /\ SimWorkerStep(t)

Spec == Init /\ [][Next]_vars

\* Each thread that can take a step eventually takes one: the threads are
\* kernel threads under a preemptive scheduler, and every fetch, sleep and
\* computation returns.
FairSpec ==
  /\ Spec
  /\ WF_vars(GetterStep)
  /\ WF_vars(SimMainStep)
  /\ \A w \in Urls : WF_vars(Alive /\ WorkerStep(w))
  /\ \A t \in Threads : WF_vars(SimAlive /\ SimWorkerStep(t))

\* ========================= properties ======================================

\* Workers of the IP getter whose locked test of the winner slot has run.
Claimed == {w \in Urls : claim[w] # "none"}
Won == {w \in Urls : claim[w] = "won"}
Launched == {w \in Urls : launch[w] = "launched"}

\* Threads of the simulator whose locked test of result_written has run.
SimClaimed == {t \in Threads : sclaim[t] # "none"}
SimWon == {t \in Threads : sclaim[t] = "won"}
SimLaunched == {t \in Threads : tpc[t] # "idle"}

\* main took the creation-failure path and raised should_stop itself (main.c:268).
SimAborted == spc \in {"abort_cancel", "abort_join"} \/ (spc = "exited" /\ exit_code = 1)

\* The states of spec section 4.2, read off the way worker() left its loop.
Succeeded(w) == wpc[w] = "terminated" /\ exitVia[w] = "won"
Stopped(w)   == wpc[w] = "terminated" /\ exitVia[w] = "break"
Exhausted(w) == wpc[w] = "terminated" /\ exitVia[w] = "loop_end"

\* ---- C1 ----
\* IP getter: at most one claim succeeds; as soon as one or more workers have
\* made their claim exactly one of them has succeeded and all others failed;
\* the winner slot holds exactly the candidate the successful worker offered.
GetterOneWinner ==
  /\ Cardinality(Won) <= 1
  /\ Claimed # {} => Cardinality(Won) = 1
  /\ \A w \in Won : winner = Cand(w, found[w])
  /\ winner # NULL => Won # {}

\* Simulator, the same statement without the exception for an aborted launch.
SimOneWinnerAlways ==
  /\ Cardinality(SimWon) <= 1
  /\ SimClaimed # {} => Cardinality(SimWon) = 1
  /\ \A t \in SimWon : final_result = ComputedResult(t)
  /\ final_result # 0 => SimWon # {}

Candidates == {Cand(w, found[w]) : w \in {x \in Urls : found[x] # 0}}

\* Positions at which a thread of the IP getter reads the winner slot.
ReadsWinner == gpc = "epilogue" \/ \E w \in Urls : wpc[w] = "test_winner"

C3_AllJoinedAtReturn ==
  /\ gpc = "returned" =>
       \A w \in Launched : wpc[w] = "terminated" /\ joins[w] = 1
  /\ (spc = "cleanup" \/ (spc = "exited" /\ exit_code = 0)) =>
       \A t \in SimLaunched : Terminal(t) /\ sjoins[t] = 1

\* The IP getter returned after a race of two launched workers, one of which lost.
C3_Witness ==
  /\ gpc = "returned"
  /\ Cardinality(Launched) = 2
  /\ \E w \in Launched : Succeeded(w)
  /\ \E w \in Launched : ~Succeeded(w)

\* ---- C4 ----
\* C4: get_public_ip_multithreaded returns a non-NULL value iff some worker's
\* claim succeeded, and the value is that worker's candidate; it returns NULL
\* iff no claim succeeded.
C4_ReturnsClaimedCandidate ==
  gpc = "returned" =>
    /\ (ret # NULL) <=> (Won # {})
    /\ \A w \in Won : ret = Cand(w, found[w])

\* The race returned a claimed candidate.
C4_Witness == gpc = "returned" /\ ret # NULL /\ Cardinality(Claimed) = 2

\* ---- C5 ----
\* C5: as long as no attempt of any worker has produced a candidate the done
\* flag is false and the winner slot empty; and if the race returns in that
\* case, every launched worker made exactly MAX_THREAD_GET_ATTEMPTS fetch
\* calls and ended Exhausted, and the result is NULL.
C5_AllFail ==
  (\A w \in Urls : found[w] = 0) =>
    /\ ~done
    /\ winner = NULL
    /\ gpc = "returned" =>
         /\ ret = NULL
         /\ \A w \in Launched : fetches[w] = MAX_THREAD_GET_ATTEMPTS /\ Exhausted(w)

\* The race of two workers returned with every attempt failed.
C5_Witness ==
  /\ gpc = "returned"
  /\ Cardinality(Launched) = 2
  /\ \A w \in Urls : found[w] = 0

\* ---- C6 ----
\* C6 (simulator, whose main polls the flag): once a worker has claimed the
\* winner, main eventually sees result_written, every launched worker
\* eventually reaches a terminal state, main ends joining them and returns.
C6_ClaimLeadsToReturn ==
  (SimWon # {}) ~> (spc = "exited" /\ \A t \in SimLaunched : Terminal(t))

\* The same for the IP getter, in the runs in which every worker was launched.
GetterClaimLeadsToReturn ==
  (Won # {} /\ \A i \in 1..n : launch[i] = "launched")
    ~> (gpc = "returned" /\ \A w \in Launched : wpc[w] = "terminated")

\* ---- C7 ----
\* C7: with urls NULL or n = 0, get_public_ip_multithreaded returns NULL in
\* its first step, and no thread is created, no WorkerArg or tid array is
\* allocated and done, winner and mtx are never initialised.
C7_DegenerateInput ==
  (program = "ip_getter" /\ (urls = "NULL" \/ n = 0)) =>
    /\ gpc \in {"entry", "returned"}
    /\ gpc = "returned" => ret = NULL
    /\ tid = "none"
    /\ mtxState = "none"
    /\ \A i \in Urls : launch[i] = "none" /\ wpc[i] = "idle"

\* The function returned on an empty list.
C7_Witness == program = "ip_getter" /\ gpc = "returned" /\ urls = "list" /\ n = 0

\* ---- C8 ----
\* C8 as stated: no worker begins a get_url_body call in a state where the
\* done flag is already set.
C8_NoFetchStartsAfterDone == \A w \in Urls : lateFetch[w] = 0

\* C8 amended: once the done flag is set no worker passes the done check at
\* the top of an attempt any more, so the only get_url_body calls begun after
\* that step belong to attempts whose check was passed before it: at most one
\* per worker, and none by a worker that has read the flag as true.
C8_NoNewAttemptAfterDone ==
  /\ [](\A w \in Urls : lateFetch[w] <= 1)
  /\ [][\A w \in Urls : (done /\ wpc[w] # "call_fetch") => wpc'[w] # "call_fetch"]_vars
  /\ [][\A w \in Urls : seenDone[w] => fetches'[w] = fetches[w]]_vars

\* A worker began a fetch after another worker's claim had set the flag.
C8_Witness == \E w \in Urls : lateFetch[w] = 1 /\ Won # {} /\ w \notin Won

\* ---- C9 ----
\* C9: if exactly one worker c ever obtains a candidate (every attempt of the
\* others fails), the race, when it returns, returns c's candidate, c has
\* Succeeded, and every other launched worker ended Stopped or Exhausted
\* without having reached the winner slot; and while no candidate has been
\* obtained no worker is stopped early, so c does get to its attempt k.
C9_SoleSuccessfulEndpoint ==
  /\ (\A w \in Urls : found[w] = 0) =>
       \A w \in Urls : ~seenDone[w] /\ exitVia[w] # "break"
  /\ \A c \in Urls :
       (gpc = "returned" /\ found[c] # 0 /\ \A w \in Urls \ {c} : found[w] = 0) =>
         /\ ret = Cand(c, found[c])
         /\ Succeeded(c)
         /\ \A w \in Launched \ {c} :
              (Stopped(w) \/ Exhausted(w)) /\ claim[w] = "none" /\ winner # ip[w]

\* One endpoint of two gave a candidate on its attempt 2 and the race returned.
C9_Witness ==
  /\ gpc = "returned"
  /\ Cardinality(Launched) = 2
  /\ \E c \in Urls : found[c] = 2 /\ \A w \in Urls \ {c} : found[w] = 0 /\ fetches[w] > 0

\* ---- C10 ----
\* C10: with a single endpoint whose attempt k is the first to give a
\* candidate, the worker has made exactly k get_url_body calls and k-1
\* sleep_ms calls, finds the lock free and the slot empty, and the race
\* returns that candidate.
C10_SingleEndpoint ==
  (program = "ip_getter" /\ urls = "list" /\ n = 1 /\ found[1] # 0) =>
    /\ fetches[1] = found[1]
    /\ sleeps[1] = found[1] - 1
    /\ wpc[1] = "lock" => mtx = 0
    /\ claim[1] # "lost"
    /\ gpc = "returned" => (ret = Cand(1, found[1]) /\ Succeeded(1))

\* The single endpoint succeeded on attempt 3 of 5 and the race returned.
C10_Witness ==
  /\ program = "ip_getter" /\ urls = "list" /\ n = 1
  /\ gpc = "returned" /\ found[1] = 3 /\ ret = Cand(1, 3)

C12_LaunchFailureLocal ==
  /\ gpc # "crashed"
  /\ gpc \in {"join", "epilogue", "returned"} => \A i \in 1..n : launch[i] # "none"
  /\ (gpc = "returned" /\ Won # {}) => \E w \in Won : ret = Cand(w, found[w])
  /\ spc \notin {"abort_stop", "abort_cancel", "abort_join"}
  /\ (spc = "exited" /\ SimWon # {}) => exit_code = 0

\* The simulator's main has printed the winner (it is past line 299).
SimPrinted == shown # << >>

InCritical(w) == wpc[w] \in {"test_winner", "store_done", "won_unlock", "lost_unlock"}

\* A simulator thread is between the lock and the unlock of result_mutex (a
\* thread cancelled in there never leaves).
SimInCritical(t) ==
  \/ tpc[t] \in {"test_written", "write_id", "write_written", "print_won",
                 "store_stop", "print_lost", "unlock"}
  \/ (tpc[t] = "cancelled" /\ result_mutex = t)

\* C14: at most one worker at a time is between acquiring and releasing the
\* result lock, that worker is the owner of the lock, and at most one worker
\* of a race has found "no winner yet" true in its locked test.
C14_MutualExclusion ==
  /\ Cardinality({w \in Urls : InCritical(w)}) <= 1
  /\ \A w \in Urls : InCritical(w) <=> mtx = w
  /\ Cardinality(Won) <= 1
  /\ Cardinality({t \in Threads : SimInCritical(t)}) <= 1
  /\ \A t \in Threads : SimInCritical(t) <=> result_mutex = t
  /\ Cardinality(SimWon) <= 1

\* One getter worker holds the lock after a successful test while another,
\* holding a candidate of its own, waits in pthread_mutex_lock.
C14_Witness ==
  \E w, v \in Urls :
    /\ w # v
    /\ InCritical(w) /\ claim[w] = "won"
    /\ wpc[v] = "lock" /\ ip[v] # NULL

\* ---- C15 ----
\* main of the simulator never locks result_mutex: its only uses of it are
\* pthread_mutex_init and pthread_mutex_destroy.
MainHoldsResultMutex == FALSE

\* C15: each done flag (done; result_written and should_stop) only ever goes
\* from false to true, and every step that writes one of them is taken by a
\* thread that holds the result lock at that moment.
C15_FlagWrittenUnderLock ==
  [][ /\ done' # done => (~done /\ done')
      /\ result_written' # result_written => (result_written = 0 /\ result_written' = 1)
      /\ should_stop' # should_stop => (should_stop = 0 /\ should_stop' = 1)
      /\ \A w \in Urls : WorkerStoreDone(w) => mtx = w
      /\ \A t \in Threads : SimWriteWritten(t) => result_mutex = t
      /\ \A t \in Threads : SimStoreStop(t) => result_mutex = t
      /\ SimAbortStop => MainHoldsResultMutex ]_vars

\* ---- C16 ----
\* C16: main of the simulator reads the result only after it has seen
\* result_written set, and the id and value it reads (and prints) are the id
\* and the result of the thread whose claim succeeded.
C16_PoolReadsWinner ==
  /\ spc = "report" => result_written = 1
  /\ (program = "simulator" /\ shown # << >>) =>
       /\ result_written = 1
       /\ \E t \in SimWon : shown = <<t, ComputedResult(t)>>

\* ---- C17 ----
\* C17 as stated: the pool's wait can end as soon as a winner exists or every
\* worker has ended: in such a state the waiting pool is not blocked.
C17_WaitEndsOnWinner ==
  /\ (spc = "poll" /\ result_written = 1) => ENABLED SimMainStep
  /\ (gpc = "join" /\ done) => ENABLED GetterStep
  /\ (gpc = "join" /\ \A w \in Launched : wpc[w] = "terminated") => ENABLED GetterStep

\* Both waits always end, under the fairness of FairSpec.
WaitsAlwaysEnd ==
  /\ (spc = "poll") ~> (spc # "poll")
  /\ (gpc = "join") ~> (gpc # "join")

\* C17 (amended): the simulator's poll can end as soon as result_written is
\* set, and main is never polling with every thread ended and no result
\* written; the getter's wait is the join loop, which is not blocked once
\* every launched worker has ended, and which ends only then, winner or not.
C17_WaitEnds ==
  /\ [](spc = "poll" /\ result_written = 1 => ENABLED SimPoll)
  /\ [](spc = "poll" => (result_written = 1 \/ \E t \in 1..num_threads : ~Terminal(t)))
  /\ []((gpc = "join" /\ \A w \in Launched : wpc[w] = "terminated") => ENABLED GetterStep)
  /\ [][(gpc = "join" /\ gpc' # "join") =>
          (gpc' = "crashed" \/ \A w \in Launched : wpc[w] = "terminated")]_vars

\* The getter's pool is blocked in pthread_join although a winner exists: the
\* worker it waits for is still inside get_url_body.
C17_Witness ==
  /\ gpc = "join" /\ done /\ gi <= n
  /\ launch[gi] = "launched" /\ wpc[gi] = "fetching"
  /\ \E v \in Urls : claim[v] = "won"

\* ---- C18 ----
\* C18: a worker that has read done as true at the top of an attempt is
\* leaving or has left by the break: it made no get_url_body call in that
\* attempt or after it, it is not the winner and the winner slot is not its
\* candidate; and a worker that is back at the top after reading done as true
\* still has an attempt whose first statement is that test.
C18_StoppedOnDone ==
  \A w \in Urls :
    /\ exitVia[w] = "break" =>
         /\ done /\ seenDone[w]
         /\ wpc[w] \in {"fail_exit", "terminated"}
         /\ fetches[w] = attempt[w] - 1
         /\ claim[w] # "won"
         /\ winner \notin {Cand(w, a) : a \in 1..MAX_THREAD_GET_ATTEMPTS}
    /\ (seenDone[w] /\ wpc[w] = "top") => (done /\ attempt[w] <= MAX_THREAD_GET_ATTEMPTS)
    /\ (seenDone[w] /\ wpc[w] \in {"fail_exit", "terminated"}) => exitVia[w] = "break"

\* A worker made two fetches, read done as true at the top of its attempt 3
\* and ended as Stopped.
C18_Witness ==
  \E w \in Urls : Stopped(w) /\ attempt[w] = 3 /\ fetches[w] = 2 /\ claim[w] = "none"

\* ---- C19 ----
\* C19 as stated: a worker whose claim succeeded ends as Succeeded, and a
\* worker whose claim failed ends as Stopped, whatever its attempt number.
C19_LoserStopped ==
  \A w \in Urls :
    /\ (claim[w] = "won" /\ wpc[w] = "terminated") => Succeeded(w)
    /\ (claim[w] = "lost" /\ wpc[w] = "terminated") => Stopped(w)

\* C19 (amended): a worker whose claim succeeded only stores done, unlocks
\* and returns; a worker whose claim failed leaves the winner slot to the
\* winner, frees its candidate, makes no further get_url_body or sleep_ms
\* call, and leaves by the done test at the top of the next attempt, except
\* that after a failed claim in its last attempt it leaves by the end of the
\* loop, as an exhausted worker does. In the simulator the winner and a loser
\* go from the locked test straight to the unlock and the exit, and a loser
\* leaves final_result and winner_thread_id alone.
C19_LoserLeaves ==
  /\ \A w \in Urls :
       /\ claim[w] = "won" =>
            /\ wpc[w] \in {"store_done", "won_unlock", "terminated"}
            /\ wpc[w] = "terminated" => Succeeded(w)
       /\ claim[w] = "lost" =>
            /\ wpc[w] \in {"lost_unlock", "maybe_retry", "top", "fail_exit", "terminated"}
            /\ done /\ winner # NULL /\ winner # Cand(w, found[w])
            /\ wpc[w] # "lost_unlock" => ip[w] = NULL
            /\ fetches[w] = found[w] /\ sleeps[w] = found[w] - 1
            /\ wpc[w] = "terminated" =>
                 IF found[w] < MAX_THREAD_GET_ATTEMPTS THEN Stopped(w) ELSE Exhausted(w)
  /\ \A t \in Threads :
       /\ sclaim[t] = "won" =>
            tpc[t] \in {"write_id", "write_written", "print_won", "store_stop",
                        "unlock", "set_finished", "terminated", "cancelled"}
       /\ sclaim[t] = "lost" =>
            /\ tpc[t] \in {"print_lost", "unlock", "set_finished", "terminated", "cancelled"}
            /\ final_result # ComputedResult(t) /\ winner_thread_id # t

\* A worker got a candidate in its last attempt, found a winner stored, and
\* left through the end of the loop.
C19_Witness ==
  \E w \in Urls :
    /\ claim[w] = "lost" /\ found[w] = MAX_THREAD_GET_ATTEMPTS
    /\ Exhausted(w) /\ sleeps[w] = MAX_THREAD_GET_ATTEMPTS - 1

\* ---- C20 ----
\* C20: a sleep_ms call begins only at the retry test of an attempt that is
\* not the last, with done read as false there, and after a get_url_body call
\* of that attempt that gave no claim; a worker never sleeps after its last
\* attempt, after a claim (won or lost), or after it has read done as true.
C20_RetryDelayRule ==
  /\ [][\A w \in Urls :
          sleeps'[w] # sleeps[w] =>
            /\ sleeps'[w] = sleeps[w] + 1
            /\ wpc[w] = "maybe_retry" /\ wpc'[w] = "sleeping"
            /\ attempt[w] < MAX_THREAD_GET_ATTEMPTS
            /\ ~done]_vars
  /\ [](\A w \in Urls :
          /\ wpc[w] = "sleeping" =>
               /\ attempt[w] < MAX_THREAD_GET_ATTEMPTS
               /\ fetches[w] = attempt[w] /\ sleeps[w] = attempt[w]
               /\ claim[w] = "none" /\ ~seenDone[w]
          /\ sleeps[w] <= MAX_THREAD_GET_ATTEMPTS - 1
          /\ sleeps[w] <= fetches[w]
          /\ claim[w] # "none" => sleeps[w] = found[w] - 1)

\* A worker slept after each of its first four attempts, not after the fifth,
\* and ended with all attempts failed while done was still false.
C20_Witness ==
  \E w \in Urls :
    /\ Exhausted(w) /\ fetches[w] = MAX_THREAD_GET_ATTEMPTS
    /\ sleeps[w] = MAX_THREAD_GET_ATTEMPTS - 1 /\ claim[w] = "none" /\ ~done

\* ---- C21 ----
\* C21: a worker makes at most MAX_THREAD_GET_ATTEMPTS get_url_body calls, at
\* most one per value of its attempt counter; the counter starts at 1 when the
\* worker is launched and only ever grows by 1; and a step in which an
\* attempt fails (no body, or no address in the body) changes nothing that
\* get_public_ip_multithreaded reads.
C21_AttemptsBounded ==
  /\ [](\A w \in Urls :
          /\ fetches[w] <= MAX_THREAD_GET_ATTEMPTS
          /\ fetches[w] <= attempt[w]
          /\ attempt[w] <= MAX_THREAD_GET_ATTEMPTS + 1
          /\ (wpc[w] # "idle") => attempt[w] >= 1)
  /\ [][\A w \in Urls :
          /\ attempt'[w] # attempt[w] => attempt'[w] = attempt[w] + 1
          /\ (wpc[w] \in {"fetching", "extract"} /\ wpc'[w] = "maybe_retry") =>
               UNCHANGED <<gpc, gi, ret, done, winner, mtx, joins, launch>>]_vars

\* A worker made its fifth and last get_url_body call, which gave nothing,
\* and ended; the pool's view of the race is still empty.
C21_Witness ==
  \E w \in Urls :
    /\ wpc[w] = "terminated" /\ fetches[w] = MAX_THREAD_GET_ATTEMPTS
    /\ attempt[w] = MAX_THREAD_GET_ATTEMPTS + 1 /\ found[w] = 0
    /\ winner = NULL

\* ---- C22 ----
\* C22: every launched worker eventually leaves Running: each created thread
\* of the simulator ends, by its own return or by a cancellation.
C22_WorkersLeaveRunning ==
  \A t \in Threads : (tpc[t] # "idle") ~> Terminal(t)

\* The same for the IP getter, where it holds unless the process dies in the
\* join on a thread that was never created.
GetterWorkersLeaveRunning ==
  \A w \in Urls : (wpc[w] # "idle") ~> (wpc[w] = "terminated" \/ gpc = "crashed")

\* The safety half of C22: a worker that has ended keeps its terminal state
\* and its way of leaving, and changes no shared state any more.
TerminalAbsorbing ==
  [][/\ \A w \in Urls : wpc[w] = "terminated" =>
          /\ wpc'[w] = "terminated" /\ exitVia'[w] = exitVia[w]
          /\ exitVia[w] \in {"won", "break", "loop_end"}
     /\ \A t \in Threads : Terminal(t) => tpc'[t] = tpc[t]]_vars

\* ---- C23 ----
\* C23: a thread's finished flag is set only by that thread, as the last
\* thing it does; it is never cleared; and a pthread_cancel is only ever
\* requested for a thread whose finished flag is 0 at that moment.
C23_FinishedFlag ==
  /\ [](\A t \in Threads : finished[t] = 1 <=> tpc[t] = "terminated")
  /\ [][\A t \in Threads :
          /\ finished[t] = 1 => finished'[t] = 1
          /\ finished'[t] # finished[t] => (tpc[t] = "set_finished" /\ tpc'[t] = "terminated")
          /\ (cancel_req'[t] /\ ~cancel_req[t]) => finished[t] = 0]_vars

\* The part of C23 about terminate_remaining_threads alone: there too a
\* cancellation can be requested for a thread whose flag is already 1.
CancelOnlyUnfinishedInTerminate ==
  [][\A t \in Threads : SimTerminateCancel /\ si = t => finished[t] = 0]_vars

\* ---- C24 ----
\* C24: the step that ends an attempt without a candidate (get_url_body gave
\* NULL, or extract_first_ipv4 gave NULL) leaves done, the winner slot and the
\* mutex as they were and goes to the retry test in both cases; and a worker
\* that never got a candidate never takes the mutex, never runs the locked
\* test, and no candidate of its is ever in the winner slot.
C24_FailedAttemptFrame ==
  /\ [][\A w \in Urls :
          /\ (wpc[w] \in {"fetching", "extract"} /\ wpc'[w] \notin {wpc[w], "extract", "lock"}) =>
               /\ wpc'[w] = "maybe_retry"
               /\ UNCHANGED <<done, winner, mtx, ip, found, claim>>
          /\ (wpc[w] = "fetching" /\ wpc'[w] # "fetching") => wpc'[w] \in {"extract", "maybe_retry"}
          /\ (wpc[w] = "extract" /\ wpc'[w] # "extract") => wpc'[w] \in {"lock", "maybe_retry"}
          /\ (wpc[w] = "extract" /\ wpc'[w] = "lock") => found'[w] = attempt[w]]_vars
  /\ [](\A w \in Urls :
          found[w] = 0 =>
            /\ wpc[w] \notin {"lock", "test_winner", "store_done", "won_unlock", "lost_unlock"}
            /\ mtx # w /\ claim[w] = "none" /\ ip[w] = NULL
            /\ winner \notin {Cand(w, a) : a \in 1..MAX_THREAD_GET_ATTEMPTS})

\* One worker exhausted its five attempts without a candidate, another is at
\* the retry test of its attempt 2 and has found nothing either; the race
\* state is untouched.
C24_Witness ==
  \E w \in Urls :
    /\ Exhausted(w) /\ found[w] = 0 /\ fetches[w] = MAX_THREAD_GET_ATTEMPTS
    /\ ~done /\ winner = NULL /\ mtx = 0
    /\ \E v \in Urls \ {w} : wpc[v] = "maybe_retry" /\ attempt[v] = 2 /\ found[v] = 0

\* ---- C25 ----
\* C25: in the simulator no thread has ended while it owns result_mutex:
\* whoever locked it has unlocked it before ending, cancelled or not.
C25_MutexReleasedAtEnd ==
  \A t \in Threads : Terminal(t) => result_mutex # t

\* ---- C26 ----
\* C26: the pool joins every thread it created exactly once and never calls
\* pthread_join for an index whose thread it did not create.
C26_JoinOnlyCreated ==
  /\ ~(gpc = "join" /\ gi <= n /\ launch[gi] # "launched")
  /\ gpc # "crashed"
  /\ \A w \in Urls : joins[w] <= (IF launch[w] = "launched" THEN 1 ELSE 0)
  /\ gpc \in {"epilogue", "returned"} => \A w \in Launched : joins[w] = 1
  /\ \A t \in Threads : sjoins[t] <= (IF tpc[t] # "idle" THEN 1 ELSE 0)
  /\ spc = "exited" => \A t \in SimLaunched : sjoins[t] = 1

\* ---- C27 ----
\* C27: done, winner and mtx are locals of get_public_ip_multithreaded (and
\* shared is a local of the simulator's main): once the mutex is destroyed or
\* the function has returned no worker is running any more, and a worker
\* whose join has completed has ended, so all its accesses came before.
C27_RaceStateOutlivesWorkers ==
  /\ (mtxState = "destroyed" \/ gpc = "returned") =>
       \A w \in Urls : wpc[w] \in {"idle", "terminated"}
  /\ \A w \in Urls : joins[w] >= 1 => wpc[w] = "terminated"
  /\ \A w \in Urls : wpc[w] \notin {"idle", "terminated"} => mtxState = "live"
  /\ spc \in {"cleanup", "exited"} => \A t \in Threads : tpc[t] = "idle" \/ Terminal(t)
  /\ \A t \in Threads : sjoins[t] >= 1 => Terminal(t)

\* The getter has destroyed its mutex and returned after joining two workers
\* that both went through the critical section, one winning, one losing.
C27_Witness ==
  /\ mtxState = "destroyed" /\ gpc = "returned"
  /\ \E w, v \in Urls :
       /\ claim[w] = "won" /\ claim[v] = "lost"
       /\ joins[w] = 1 /\ joins[v] = 1

\* ---- C28 ----
\* main created every thread and went on to poll (no creation failure).
AllCreated == spc \in {"poll", "report", "terminate", "terminate_cancel", "terminate_join", "cleanup"}
                \/ (spc = "exited" /\ exit_code = 0)

C29_DoneIffWinner ==
  /\ mtx = 0 => (done <=> winner # NULL)
  /\ (done # (winner # NULL)) => \E w \in Urls : mtx = w /\ wpc[w] = "store_done"
  /\ done => winner # NULL

\* The mutex is free and the race is won while a worker holding a candidate
\* is about to lock and run the test on the winner slot.
C29_Witness ==
  /\ mtx = 0 /\ done /\ winner # NULL
  /\ \E w \in Urls : wpc[w] = "lock" /\ ip[w] # NULL

\* ---- C30 ----
\* C30: a worker extracts at most one candidate that reaches the claim; when
\* the worker has ended that candidate is either the value in the winner slot
\* and was never freed by it, or is not in the slot and was freed by it
\* exactly once; a worker without a candidate frees none; the slot holds the
\* winner's candidate; and every worker that has ended has freed its
\* WorkerArg exactly once, a running one not yet.
C30_ExactOwnership ==
  \A w \in Urls :
    /\ ipFrees[w] <= 1 /\ argFrees[w] <= 1
    /\ argFrees[w] = (IF wpc[w] = "terminated" THEN 1 ELSE 0)
    /\ found[w] = 0 => ipFrees[w] = 0
    /\ claim[w] = "won" => (ipFrees[w] = 0 /\ winner = Cand(w, found[w]))
    /\ (claim[w] = "lost" /\ wpc[w] # "lost_unlock") =>
         (ipFrees[w] = 1 /\ winner # Cand(w, found[w]))
    /\ (wpc[w] = "terminated" /\ found[w] # 0) =>
         ((winner = Cand(w, found[w])) <=> (ipFrees[w] = 0))
    /\ wpc[w] = "terminated" => (ip[w] = NULL \/ winner = ip[w])

\* Both workers extracted a candidate and have ended: the winner's is in the
\* slot, unfreed, the loser freed its own once; each freed its WorkerArg.
C30_Witness ==
  \E w, v \in Urls :
    /\ Succeeded(w) /\ ipFrees[w] = 0 /\ winner = Cand(w, found[w])
    /\ wpc[v] = "terminated" /\ claim[v] = "lost" /\ ipFrees[v] = 1
    /\ argFrees[w] = 1 /\ argFrees[v] = 1

====
